---- MODULE Spec2Model ----
(***************************************************************************)
(* Model of the rclone hub backend (backend/app.py): the job orchestrator  *)
(* (create_job / start_operation / stop_job / job_status), the SQLite job  *)
(* store, the remote-call gateway and the NDJSON stats streamer.           *)
(*                                                                         *)
(* Scheduling: the async handlers run on one event loop and are suspended  *)
(* only at `await rc_call(...)` and `await asyncio.sleep(2)`; every SQL    *)
(* statement is committed on its own (isolation_level=None).  job_status   *)
(* is a plain `def`, so it runs on a worker thread and may observe the     *)
(* store between two statements of one handler; a process restart may      *)
(* also fall there.                                                        *)
(***************************************************************************)
EXTENDS Integers, Sequences, FiniteSets, TLC

\* ------------------------------------------------------------------ bounds
MaxJobs == 2        \* uuid4() values drawn in one behaviour
MaxCalls == 3       \* gateway calls (start and stop) in one behaviour
MaxClock == 1       \* values of int(time.time()) beyond the first

\* ------------------------------------------------------------------ values
None == "None"      \* Python's None (an absent header, body field or row)

Truthy(s) == s # None /\ s # ""

Procs == {"r1", "r2"}                      \* concurrent HTTP requests
Subs == {"s1", "s2"}                       \* concurrent /v1/stream subscribers
Uuids == <<"u1", "u2", "u3", "u4", "u5">>  \* the uuid4() values, in draw order
KeyInputs == {None, "", "k1"}              \* Idempotency-Key header values
Configs == {<<"A", "B">>, <<"B">>}         \* node ids of config.json, in file order

EmptyFlags == [k \in {} |-> ""]

\* requests to POST /v1/jobs/{kind}: the path's kind and the body's members.
\* The flags are a whitelisted one with an unknown one, and a whitelisted one
\* with one that names a key the payload already has.
ValidRequests ==
  { [kind |-> "copy", node |-> "A", src |-> "local:/a", dst |-> "remote:/a",
     flags |-> ("checksum" :> "true") @@ ("verbose" :> "true")],
    [kind |-> "sync", node |-> "B", src |-> "local:/b", dst |-> "remote:/b",
     flags |-> ("transfers" :> "4") @@ ("srcFs" :> "evil:")] }

BadRequests ==
  { [kind |-> "purge", node |-> "A", src |-> "local:/a", dst |-> "remote:/a",
     flags |-> EmptyFlags],
    [kind |-> "copy", node |-> None, src |-> "local:/a", dst |-> "remote:/a",
     flags |-> EmptyFlags],
    [kind |-> "copy", node |-> "A", src |-> "", dst |-> "remote:/a",
     flags |-> EmptyFlags],
    [kind |-> "sync", node |-> "B", src |-> "local:/b", dst |-> None,
     flags |-> EmptyFlags],
    [kind |-> "copy", node |-> "ghost", src |-> "local:/a", dst |-> "remote:/a",
     flags |-> "verbose" :> "true"] }

Requests == ValidRequests \cup BadRequests

\* the submits made: a request and its Idempotency-Key header. Every valid
\* request comes with every header value; a bad one comes without a key, and
\* the ones whose check could be overtaken by the idempotency lookup (the
\* unsupported kind, the unregistered node) also with the key.
SubmitInputs ==
  (ValidRequests \X KeyInputs)
    \cup (BadRequests \X {None})
    \cup ({r \in BadRequests : r.kind = "purge" \/ r.node = "ghost"} \X {"k1"})

JobIds == {Uuids[i] : i \in 1..Len(Uuids)} \cup {"k1", "nope"}

VARIABLES
  registry,    \* CONFIG["nodes"]: the node ids, in insertion order
  store,       \* the jobs table: uid -> row
  now,         \* int(time.time())
  pc,          \* per request: where its handler is suspended
  loc,         \* per request: the handler's local variables
  nextUid,     \* how many uuid4() values have been drawn
  nextHandle,  \* how many jobids the agents have handed out
  startCalls,  \* gateway start calls sent, per idempotency key (None: without)
  stopCalls,   \* gateway job/stop calls sent, per job uid
  acked,       \* uid -> what the last successful submit/stop response promised
  resp,        \* the HTTP response sent by the last step, if it sent one
  spc,         \* per subscriber: position of event_generator
  iter,        \* per subscriber: nodes the current round has yet to poll
  round        \* per subscriber: events yielded in the current round

jobVars == <<store, pc, loc, nextUid, nextHandle, startCalls, stopCalls, acked>>
streamVars == <<spc, iter, round>>
vars == <<registry, now, resp, jobVars, streamVars>>

\* ------------------------------------------------------------------ helpers
Range(s) == {s[i] : i \in 1..Len(s)}

\* a lookup that finds every id
NodeLookupAny(reg, node_id) == node_id

\* CONFIG["nodes"].get(node_id)
NodeLookup(reg, node_id) == IF node_id \in Range(reg) THEN node_id ELSE None

\* flag_map of start_operation
FlagMap ==
  [k \in {"checksum", "sizeOnly", "transfers", "checkers", "bwlimit", "dryRun",
          "ignoreExisting", "fastList"} |-> k]

\* path_map of start_operation
PathMap ==
  [k \in {"copy", "move", "sync"} |->
     CASE k = "copy" -> "operations/copyfs"
       [] k = "move" -> "operations/movefs"
       [] OTHER -> "sync/sync"]

\* a payload that forwards every caller flag
OpPayloadAll(src, dst, flags) ==
  flags @@ ("_async" :> "true") @@ ("srcFs" :> src) @@ ("dstFs" :> dst)

\* op_payload: the base keys, then flag_map[key] = value for each whitelisted key
OpPayload(src, dst, flags) ==
  LET base == ("_async" :> "true") @@ ("srcFs" :> src) @@ ("dstFs" :> dst)
      keep == {k \in DOMAIN flags : k \in DOMAIN FlagMap}
      mapped == {FlagMap[k] : k \in keep}
  IN [k \in DOMAIN base \cup mapped |->
        IF k \in mapped THEN flags[CHOOSE f \in keep : FlagMap[f] = k] ELSE base[k]]

\* json.dumps / json.loads of a flags dictionary: the text is the set of members
JsonDumps(d) == {<<k, d[k]>> : k \in DOMAIN d}

JsonLoads(text) ==
  [k \in {m[1] : m \in text} |-> (CHOOSE m \in text : m[1] = k)[2]]

\* INSERT OR REPLACE INTO jobs ... with save_job's defaults
SaveJob(db, job, t) ==
  LET row == [node |-> job.node, kind |-> job.kind, src |-> job.src, dst |-> job.dst,
              flags |-> JsonDumps(job.flags), rc_jobid |-> job.rc_jobid,
              status |-> job.status, bytes_done |-> 0, files_done |-> 0,
              created_at |-> job.created_at, updated_at |-> t]
  IN [u \in DOMAIN db \cup {job.uid} |-> IF u = job.uid THEN row ELSE db[u]]

\* an UPDATE OR REPLACE: the constraint never fires, the old row is replaced
UidConflictNever(db, old, new) == FALSE

\* UPDATE jobs SET uid=new WHERE uid=old hits the PRIMARY KEY constraint
UidConflict(db, old, new) == old \in DOMAIN db /\ new # old /\ new \in DOMAIN db

\* UPDATE jobs SET uid=new WHERE uid=old, when it does not conflict
UpdateUid(db, old, new) ==
  IF old \notin DOMAIN db THEN db
  ELSE [u \in (DOMAIN db \ {old}) \cup {new} |-> IF u = new THEN db[old] ELSE db[u]]

\* an UPDATE that touches the timestamp only
UpdateStatusLost(db, uid, status, t) ==
  [u \in DOMAIN db |-> IF u = uid THEN [db[u] EXCEPT !.updated_at = t] ELSE db[u]]

\* UPDATE jobs SET status=?, updated_at=? WHERE uid=?
UpdateStatus(db, uid, status, t) ==
  [u \in DOMAIN db |->
     IF u = uid THEN [db[u] EXCEPT !.status = status, !.updated_at = t] ELSE db[u]]

\* the response body of job_status for an existing row
JobView(db, uid) ==
  [uid |-> uid, node |-> db[uid].node, kind |-> db[uid].kind, src |-> db[uid].src,
   dst |-> db[uid].dst, flags |-> JsonLoads(db[uid].flags),
   rc_jobid |-> db[uid].rc_jobid, status |-> db[uid].status,
   bytesDone |-> db[uid].bytes_done, filesDone |-> db[uid].files_done,
   createdAt |-> db[uid].created_at, updatedAt |-> db[uid].updated_at]

\* what a successful response to a write promises: the fields a later get shows
Promise(uid, node_id, kind, src, dst, rc_jobid, status) ==
  [uid |-> uid, node |-> node_id, kind |-> kind, src |-> src, dst |-> dst,
   rc_jobid |-> rc_jobid, status |-> status]

\* `if idempotency_key:` and the SELECT uid FROM jobs WHERE uid=key finds a row
FindByKeyNever(db, key) == FALSE

FindByKey(db, key) == Truthy(key) /\ key \in DOMAIN db

IdleLoc ==
  [kind |-> None, node |-> None, src |-> None, dst |-> None, flags |-> EmptyFlags,
   key |-> None, uid |-> None, rc_jobid |-> 0, payload |-> EmptyFlags]

\* an HTTP response: who receives it, the handler, the status code, the error
\* class behind an HTTPException (or the unhandled exception), the body's
\* jobUid/uid and stopped members, and job_status's body
Resp(p, op, code, err, uid, stopped) ==
  [proc |-> p, op |-> op, code |-> code, err |-> err, uid |-> uid, stopped |-> stopped,
   body |-> None]

NoResp == Resp(None, "none", 0, None, None, FALSE)

\* the key a submit counts under: `if idempotency_key:` treats "" as absent
KeyOf(key) == IF Truthy(key) THEN key ELSE None

\* an event loop that a handler holds while it waits for its gateway call
LoopBusyWaiting == \E p \in Procs : pc[p] # "idle"

\* the event loop is inside a handler, between two awaits
LoopBusy == \E p \in Procs : pc[p] = "submit_saved"

RECURSIVE Sum(_, _)
Sum(f, S) ==
  IF S = {} THEN 0 ELSE LET x == CHOOSE y \in S : TRUE IN f[x] + Sum(f, S \ {x})

\* gateway calls sent so far by the job handlers
GatewayCalls == Sum(startCalls, DOMAIN startCalls) + Sum(stopCalls, DOMAIN stopCalls)

\* ------------------------------------------------------------------ initial state
Init ==
  /\ registry \in Configs
  /\ store = [u \in {} |-> None]
  /\ now = 0
  /\ resp = NoResp
  /\ pc = [p \in Procs |-> "idle"]
  /\ loc = [p \in Procs |-> IdleLoc]
  /\ nextUid = 0
  /\ nextHandle = 0
  /\ startCalls = [k \in {None, "k1"} |-> 0]
  /\ stopCalls = [u \in JobIds |-> 0]
  /\ acked = [u \in {} |-> None]
  /\ spc = [s \in Subs |-> "off"]
  /\ iter = [s \in Subs |-> <<>>]
  /\ round = [s \in Subs |-> <<>>]

\* the handler of request p returns (or raises) and r is sent
Finish(p, r) ==
  /\ pc' = [pc EXCEPT ![p] = "idle"]
  /\ loc' = [loc EXCEPT ![p] = IdleLoc]
  /\ resp' = r

\* the handler of request p suspends at an await with locals l
Await(p, at, l) ==
  /\ pc' = [pc EXCEPT ![p] = at]
  /\ loc' = [loc EXCEPT ![p] = l]
  /\ resp' = NoResp

\* ------------------------------------------------------------------ submit
\* start_operation up to `await rc_call(...)`
StartOperation(p, kind, node_id, src, dst, flags, key) ==
  IF NodeLookup(registry, node_id) = None
  THEN /\ Finish(p, Resp(p, "submit", 404, "NodeNotFound", None, FALSE))
       /\ UNCHANGED <<nextUid, startCalls>>
  ELSE /\ nextUid < MaxJobs
       /\ nextUid' = nextUid + 1
       /\ IF kind \notin DOMAIN PathMap
          THEN /\ Finish(p, Resp(p, "submit", 400, "InvalidRequest", None, FALSE))
               /\ UNCHANGED startCalls
          ELSE /\ GatewayCalls < MaxCalls
               /\ Await(p, "submit_wait",
                        [IdleLoc EXCEPT !.kind = kind, !.node = node_id, !.src = src,
                                        !.dst = dst, !.flags = flags, !.key = key,
                                        !.uid = Uuids[nextUid + 1],
                                        !.payload = OpPayload(src, dst, flags)])
               /\ startCalls' = [startCalls EXCEPT ![KeyOf(key)] = @ + 1]

\* create_job up to its first await: validation, the idempotency lookup, and
\* start_operation up to the gateway call
CreateJob(p, req, key) ==
  /\ pc[p] = "idle"
  /\ ~LoopBusy
  /\ IF req.kind \notin {"copy", "move", "sync"}
     THEN /\ Finish(p, Resp(p, "submit", 400, "InvalidRequest", None, FALSE))
          /\ UNCHANGED <<nextUid, startCalls>>
     ELSE IF ~Truthy(req.node) \/ ~Truthy(req.src) \/ ~Truthy(req.dst)
     THEN /\ Finish(p, Resp(p, "submit", 400, "InvalidRequest", None, FALSE))
          /\ UNCHANGED <<nextUid, startCalls>>
     ELSE IF FindByKey(store, key)
     THEN /\ Finish(p, Resp(p, "submit", 200, None, key, FALSE))
          /\ UNCHANGED <<nextUid, startCalls>>
     ELSE StartOperation(p, req.kind, req.node, req.src, req.dst, req.flags, key)
  /\ UNCHANGED <<registry, now, store, nextHandle, stopCalls, acked, streamVars>>

\* rc_call returned the agent's reply: save_job(job_record), return {"jobUid": uid};
\* with an Idempotency-Key the handler still has its UPDATE to run
StartOperationReturn(p) ==
  /\ pc[p] = "submit_wait"
  /\ ~LoopBusy
  /\ nextHandle' = nextHandle + 1
  /\ store' = SaveJob(store,
                      [uid |-> loc[p].uid, node |-> loc[p].node, kind |-> loc[p].kind,
                       src |-> loc[p].src, dst |-> loc[p].dst, flags |-> loc[p].flags,
                       rc_jobid |-> nextHandle + 1, status |-> "running",
                       created_at |-> now],
                      now)
  /\ IF Truthy(loc[p].key)
     THEN /\ Await(p, "submit_saved", [loc[p] EXCEPT !.rc_jobid = nextHandle + 1])
          /\ UNCHANGED acked
     ELSE /\ Finish(p, Resp(p, "submit", 200, None, loc[p].uid, FALSE))
          /\ acked' = (loc[p].uid :> Promise(loc[p].uid, loc[p].node, loc[p].kind,
                                              loc[p].src, loc[p].dst, nextHandle + 1,
                                              "running")) @@ acked
  /\ UNCHANGED <<registry, now, nextUid, startCalls, stopCalls, streamVars>>

\* a failed gateway call that is sent again
StartOperationRetries(p) ==
  /\ pc[p] = "submit_wait"
  /\ ~LoopBusy
  /\ GatewayCalls < MaxCalls
  /\ startCalls' = [startCalls EXCEPT ![KeyOf(loc[p].key)] = @ + 1]
  /\ resp' = NoResp
  /\ UNCHANGED <<registry, now, store, pc, loc, nextUid, nextHandle, stopCalls, acked, streamVars>>

\* rc_call raised HTTPException(502): it propagates out of create_job
StartOperationFails(p) ==
  /\ pc[p] = "submit_wait"
  /\ ~LoopBusy
  /\ Finish(p, Resp(p, "submit", 502, "Gateway", None, FALSE))
  /\ UNCHANGED <<registry, now, store, nextUid, nextHandle, startCalls, stopCalls, acked, streamVars>>

\* create_job after start_operation: UPDATE jobs SET uid=key WHERE uid=jobUid
OverwriteUid(p) ==
  /\ pc[p] = "submit_saved"
  /\ IF UidConflict(store, loc[p].uid, loc[p].key)
     THEN /\ Finish(p, Resp(p, "submit", 500, "IntegrityError", None, FALSE))
          /\ UNCHANGED <<store, acked>>
     ELSE /\ store' = UpdateUid(store, loc[p].uid, loc[p].key)
          /\ Finish(p, Resp(p, "submit", 200, None, loc[p].key, FALSE))
          /\ acked' = (loc[p].key :> Promise(loc[p].key, loc[p].node, loc[p].kind,
                                              loc[p].src, loc[p].dst, loc[p].rc_jobid,
                                              "running")) @@ acked
  /\ UNCHANGED <<registry, now, nextUid, nextHandle, startCalls, stopCalls,
                 streamVars>>

\* ------------------------------------------------------------------ stop
\* f"Job status is {status}, nothing to stop"
StopMessage(status) == <<"Job status is ", status, ", nothing to stop">>

\* {"uid": uid, "stopped": False, "message": ...}
StoppedFalse(p, uid, status) ==
  [Resp(p, "stop", 200, None, uid, FALSE) EXCEPT !.body = StopMessage(status)]

\* a stop_job that resolves the node before it looks at the status
StopJobNodeFirst(p, uid) ==
  /\ pc[p] = "idle"
  /\ ~LoopBusy
  /\ IF uid \notin DOMAIN store
     THEN /\ Finish(p, Resp(p, "stop", 404, "JobNotFound", None, FALSE))
          /\ UNCHANGED stopCalls
     ELSE IF NodeLookup(registry, store[uid].node) = None
     THEN /\ Finish(p, Resp(p, "stop", 404, "NodeNotFound", None, FALSE))
          /\ UNCHANGED stopCalls
     ELSE IF store[uid].status # "running"
     THEN /\ Finish(p, StoppedFalse(p, uid, store[uid].status))
          /\ UNCHANGED stopCalls
     ELSE /\ GatewayCalls < MaxCalls
          /\ Await(p, "stop_wait",
                   [IdleLoc EXCEPT !.uid = uid, !.node = store[uid].node,
                                   !.rc_jobid = store[uid].rc_jobid])
          /\ stopCalls' = [stopCalls EXCEPT ![uid] = @ + 1]
  /\ UNCHANGED <<registry, now, store, nextUid, nextHandle, startCalls, acked,
                 streamVars>>

\* a stop_job that sends the stop call whatever the status
StopJobAnyStatus(p, uid) ==
  /\ pc[p] = "idle"
  /\ ~LoopBusy
  /\ IF uid \notin DOMAIN store
     THEN /\ Finish(p, Resp(p, "stop", 404, "JobNotFound", None, FALSE))
          /\ UNCHANGED stopCalls
     ELSE IF NodeLookup(registry, store[uid].node) = None
     THEN /\ Finish(p, Resp(p, "stop", 404, "NodeNotFound", None, FALSE))
          /\ UNCHANGED stopCalls
     ELSE /\ GatewayCalls < MaxCalls
          /\ Await(p, "stop_wait",
                   [IdleLoc EXCEPT !.uid = uid, !.node = store[uid].node,
                                   !.rc_jobid = store[uid].rc_jobid])
          /\ stopCalls' = [stopCalls EXCEPT ![uid] = @ + 1]
  /\ UNCHANGED <<registry, now, store, nextUid, nextHandle, startCalls, acked,
                 streamVars>>

\* stop_job up to `await rc_call(node, "job/stop", ...)`
StopJob(p, uid) ==
  /\ pc[p] = "idle"
  /\ ~LoopBusy
  /\ IF uid \notin DOMAIN store
     THEN /\ Finish(p, Resp(p, "stop", 404, "JobNotFound", None, FALSE))
          /\ UNCHANGED stopCalls
     ELSE IF store[uid].status # "running"
     THEN /\ Finish(p, StoppedFalse(p, uid, store[uid].status))
          /\ UNCHANGED stopCalls
     ELSE IF NodeLookup(registry, store[uid].node) = None
     THEN /\ Finish(p, Resp(p, "stop", 404, "NodeNotFound", None, FALSE))
          /\ UNCHANGED stopCalls
     ELSE /\ GatewayCalls < MaxCalls
          /\ Await(p, "stop_wait",
                   [IdleLoc EXCEPT !.uid = uid, !.node = store[uid].node,
                                   !.rc_jobid = store[uid].rc_jobid])
          /\ stopCalls' = [stopCalls EXCEPT ![uid] = @ + 1]
  /\ UNCHANGED <<registry, now, store, nextUid, nextHandle, startCalls, acked,
                 streamVars>>

\* rc_call returned: UPDATE jobs SET status='stopped', updated_at=now WHERE uid=?
StopJobReturn(p) ==
  /\ pc[p] = "stop_wait"
  /\ ~LoopBusy
  /\ store' = UpdateStatus(store, loc[p].uid, "stopped", now)
  /\ Finish(p, Resp(p, "stop", 200, None, loc[p].uid, TRUE))
  /\ acked' = IF loc[p].uid \in DOMAIN acked
              THEN [acked EXCEPT ![loc[p].uid].status = "stopped"]
              ELSE IF loc[p].uid \in DOMAIN store
              THEN (loc[p].uid :>
                      Promise(loc[p].uid, store[loc[p].uid].node, store[loc[p].uid].kind,
                              store[loc[p].uid].src, store[loc[p].uid].dst,
                              store[loc[p].uid].rc_jobid, "stopped")) @@ acked
              ELSE acked
  /\ UNCHANGED <<registry, now, nextUid, nextHandle, startCalls, stopCalls,
                 streamVars>>

\* a failed stop that still writes the timestamp
StopJobFailsTouches(p) ==
  /\ pc[p] = "stop_wait"
  /\ ~LoopBusy
  /\ store' = UpdateStatusLost(store, loc[p].uid, "running", now)
  /\ Finish(p, Resp(p, "stop", 502, "Gateway", None, FALSE))
  /\ UNCHANGED <<registry, now, nextUid, nextHandle, startCalls, stopCalls, acked, streamVars>>

\* rc_call raised HTTPException(502): stop_job re-raises it
StopJobFails(p) ==
  /\ pc[p] = "stop_wait"
  /\ ~LoopBusy
  /\ Finish(p, Resp(p, "stop", 502, "Gateway", None, FALSE))
  /\ UNCHANGED <<registry, now, store, nextUid, nextHandle, startCalls, stopCalls, acked, streamVars>>

\* ------------------------------------------------------------------ get
\* job_status: a synchronous handler, run on a worker thread
JobStatus(uid) ==
  /\ resp' = IF uid \in DOMAIN store
             THEN [Resp(None, "get", 200, None, uid, FALSE) EXCEPT
                     !.body = JobView(store, uid)]
             ELSE Resp(None, "get", 404, "JobNotFound", None, FALSE)
  /\ UNCHANGED <<registry, now, jobVars, streamVars>>

\* ------------------------------------------------------------------ environment
\* a restart over a database that is not kept (an in-memory one)
RestartVolatile(cfg) ==
  /\ registry' = cfg
  /\ store' = [u \in {} |-> None]
  /\ pc' = [p \in Procs |-> "idle"]
  /\ loc' = [p \in Procs |-> IdleLoc]
  /\ spc' = [s \in Subs |-> "off"]
  /\ iter' = [s \in Subs |-> <<>>]
  /\ round' = [s \in Subs |-> <<>>]
  /\ resp' = NoResp
  /\ UNCHANGED <<now, nextUid, nextHandle, startCalls, stopCalls, acked>>

\* the process is killed and started again: get_db() reopens the same database,
\* on_startup re-reads config.json, every handler and stream in flight is gone
Restart(cfg) ==
  /\ registry' = cfg
  /\ pc' = [p \in Procs |-> "idle"]
  /\ loc' = [p \in Procs |-> IdleLoc]
  /\ spc' = [s \in Subs |-> "off"]
  /\ iter' = [s \in Subs |-> <<>>]
  /\ round' = [s \in Subs |-> <<>>]
  /\ resp' = NoResp
  /\ UNCHANGED <<store, now, nextUid, nextHandle, startCalls, stopCalls, acked>>

\* time.time() advances
Tick ==
  /\ now < MaxClock
  /\ now' = now + 1
  /\ resp' = NoResp
  /\ UNCHANGED <<registry, jobVars, streamVars>>

\* ------------------------------------------------------------------ stream
\* one line of the NDJSON stream
StatsEvent(t, node_id) == ("t" :> t) @@ ("node" :> node_id) @@ ("stats" :> "core/stats")

ErrorEvent(t, node_id) == ("t" :> t) @@ ("node" :> node_id) @@ ("error" :> TRUE)

\* GET /v1/stream: event_generator starts its first `for` over CONFIG["nodes"]
Subscribe(s) ==
  /\ spc[s] = "off"
  /\ ~LoopBusy
  /\ spc' = [spc EXCEPT ![s] = "polling"]
  /\ iter' = [iter EXCEPT ![s] = registry]
  /\ round' = [round EXCEPT ![s] = <<>>]
  /\ resp' = NoResp
  /\ UNCHANGED <<registry, now, jobVars>>

\* rc_call(node, "core/stats") returned: the stats line is yielded
PollNodeOk(s) ==
  /\ spc[s] = "polling"
  /\ ~LoopBusy
  /\ iter[s] # <<>>
  /\ round' = [round EXCEPT ![s] = Append(@, StatsEvent(now, Head(iter[s])))]
  /\ iter' = [iter EXCEPT ![s] = Tail(@)]
  /\ resp' = NoResp
  /\ UNCHANGED <<registry, now, jobVars, spc>>

\* a failure that ends the round: the error line is yielded, the `for` is left
PollNodeFailsAborts(s) ==
  /\ spc[s] = "polling"
  /\ ~LoopBusy
  /\ iter[s] # <<>>
  /\ round' = [round EXCEPT ![s] = Append(@, ErrorEvent(now, Head(iter[s])))]
  /\ iter' = [iter EXCEPT ![s] = <<>>]
  /\ resp' = NoResp
  /\ UNCHANGED <<registry, now, jobVars, spc>>

\* rc_call raised: `except Exception` yields the error line, the loop goes on
PollNodeFails(s) ==
  /\ spc[s] = "polling"
  /\ ~LoopBusy
  /\ iter[s] # <<>>
  /\ round' = [round EXCEPT ![s] = Append(@, ErrorEvent(now, Head(iter[s])))]
  /\ iter' = [iter EXCEPT ![s] = Tail(@)]
  /\ resp' = NoResp
  /\ UNCHANGED <<registry, now, jobVars, spc>>

\* the `for` is exhausted: await asyncio.sleep(2)
EndRound(s) ==
  /\ spc[s] = "polling"
  /\ ~LoopBusy
  /\ iter[s] = <<>>
  /\ spc' = [spc EXCEPT ![s] = "sleeping"]
  /\ resp' = NoResp
  /\ UNCHANGED <<registry, now, jobVars, iter, round>>

\* the sleep is over: `while True` starts the next `for` over CONFIG["nodes"]
NextRound(s) ==
  /\ spc[s] = "sleeping"
  /\ ~LoopBusy
  /\ spc' = [spc EXCEPT ![s] = "polling"]
  /\ iter' = [iter EXCEPT ![s] = registry]
  /\ round' = [round EXCEPT ![s] = <<>>]
  /\ resp' = NoResp
  /\ UNCHANGED <<registry, now, jobVars>>

\* a disconnect that closes every subscriber's generator
CancelAll(s) ==
  /\ spc[s] # "off"
  /\ spc' = [o \in Subs |-> "off"]
  /\ iter' = [o \in Subs |-> <<>>]
  /\ round' = [o \in Subs |-> <<>>]
  /\ resp' = NoResp
  /\ UNCHANGED <<registry, now, jobVars>>

\* the subscriber disconnects: its generator is closed
Cancel(s) ==
  /\ spc[s] # "off"
  /\ spc' = [spc EXCEPT ![s] = "off"]
  /\ iter' = [iter EXCEPT ![s] = <<>>]
  /\ round' = [round EXCEPT ![s] = <<>>]
  /\ resp' = NoResp
  /\ UNCHANGED <<registry, now, jobVars>>

\* ------------------------------------------------------------------ specifications
JobNext ==
  \/ \E p \in Procs, in \in SubmitInputs : CreateJob(p, in[1], in[2])
  \/ \E p \in Procs : StartOperationReturn(p)
  \/ \E p \in Procs : StartOperationFails(p)
  \/ \E p \in Procs : OverwriteUid(p)
  \/ \E p \in Procs, uid \in DOMAIN store \cup {"nope"} : StopJob(p, uid)
  \/ \E p \in Procs : StopJobReturn(p)
  \/ \E p \in Procs : StopJobFails(p)
  \/ \E uid \in DOMAIN store \cup DOMAIN acked \cup {"nope"} : JobStatus(uid)
  \/ \E cfg \in Configs : Restart(cfg)

StreamNext ==
  \/ \E s \in Subs : Subscribe(s)
  \/ \E s \in Subs : PollNodeOk(s)
  \/ \E s \in Subs : PollNodeFails(s)
  \/ \E s \in Subs : EndRound(s)
  \/ \E s \in Subs : NextRound(s)
  \/ \E s \in Subs : Cancel(s)
  \/ \E cfg \in Configs : Restart(cfg)
  \/ Tick

\* the job handlers and restarts, at one clock value
Next == JobNext

Spec == Init /\ [][Next]_vars

\* the submit and stop handlers on valid requests, with the clock advancing
\* between their steps
TimedNext ==
  \/ \E p \in Procs, req \in ValidRequests, key \in {None, "k1"} : CreateJob(p, req, key)
  \/ \E p \in Procs : StartOperationReturn(p)
  \/ \E p \in Procs : StartOperationFails(p)
  \/ \E p \in Procs : OverwriteUid(p)
  \/ \E p \in Procs, uid \in DOMAIN store \cup {"nope"} : StopJob(p, uid)
  \/ \E p \in Procs : StopJobReturn(p)
  \/ \E p \in Procs : StopJobFails(p)
  \/ Tick

TimedSpec == Init /\ [][TimedNext]_vars

\* the stats streamer: subscribers, restarts and the clock
StreamSpec == Init /\ [][StreamNext]_vars

\* the stats streamer under the event loop's scheduling: a pending rc_call
\* returns or raises (it has a timeout), asyncio.sleep(2) ends, and a generator
\* that can take its next step takes it
StreamFairSpec ==
  /\ StreamSpec
  /\ \A s \in Subs :
       /\ WF_vars(PollNodeOk(s) \/ PollNodeFails(s))
       /\ WF_vars(EndRound(s))
       /\ WF_vars(NextRound(s))

\* ------------------------------------------------------------------ claims
\* the whitelist as the specification lists it
SpecWhitelist ==
  {"checksum", "sizeOnly", "transfers", "checkers", "bwlimit", "dryRun",
   "ignoreExisting", "fastList"}

Keys == {k \in KeyInputs : Truthy(k)}

\* a request with a supported kind and non-empty node, src and dst
WellFormed(req) ==
  /\ req.kind \in {"copy", "move", "sync"}
  /\ Truthy(req.node) /\ Truthy(req.src) /\ Truthy(req.dst)

\* this step sends no gateway call and writes nothing to the jobs table
NoCallNoWrite ==
  /\ store' = store
  /\ startCalls' = startCalls
  /\ stopCalls' = stopCalls

\* this step is the first of a handler for request p: it answers p or suspends
Begins(p) == pc[p] = "idle" /\ (pc'[p] # "idle" \/ resp'.proc = p)

\* this step ends a submit of request p with a job id
SubmitSucceeds(p) ==
  /\ pc[p] \in {"idle", "submit_wait", "submit_saved"}
  /\ pc'[p] = "idle"
  /\ resp'.proc = p /\ resp'.op = "submit" /\ resp'.code = 200

\* C1: for every idempotency key K, under every interleaving of the submits
\* that carry K, the gateway's start operation is invoked at most once for K,
\* and every submit with K that returns a job id returns K.
C1_AtMostOnceSubmission ==
  /\ [](\A k \in Keys : startCalls[k] <= 1)
  /\ [][\A p \in Procs :
          /\ (SubmitSucceeds(p) /\ pc[p] # "idle" /\ Truthy(loc[p].key))
               => resp'.uid = loc[p].key
          /\ (SubmitSucceeds(p) /\ pc[p] = "idle")
               => \A in \in SubmitInputs :
                    (Truthy(in[2]) /\ CreateJob(p, in[1], in[2])) => resp'.uid = in[2]]_vars

\* C2: once a submit with key K has returned successfully, a later well-formed
\* submit with K returns K, sends no gateway call and leaves the jobs table as
\* it was.
C2_SequentialReplay ==
  \A p \in Procs, in \in SubmitInputs :
    (in[2] \in DOMAIN acked /\ WellFormed(in[1]) /\ pc[p] = "idle" /\ ~LoopBusy)
      => /\ ENABLED CreateJob(p, in[1], in[2])
         /\ ~ENABLED (/\ CreateJob(p, in[1], in[2])
                      /\ ~(/\ resp' = Resp(p, "submit", 200, None, in[2], FALSE)
                           /\ pc'[p] = "idle"
                           /\ NoCallNoWrite))

\* C2 witness: a submit with k1 has just been answered with k1 although the one
\* start call for k1 was made before the job was stopped: it was a replay.
C2_Witness ==
  /\ resp.op = "submit" /\ resp.code = 200 /\ resp.uid = "k1"
  /\ "k1" \in DOMAIN acked /\ acked["k1"].status = "stopped"
  /\ startCalls["k1"] = 1

\* the flags of a request that are on the whitelist
Whitelisted(flags) == [k \in DOMAIN flags \cap SpecWhitelist |-> flags[k]]

\* a get of uid in the next state shows a running job with these members
GetShows(uid, kind, src, dst, flags) ==
  /\ uid \in DOMAIN store'
  /\ JobView(store', uid).status = "running"
  /\ JobView(store', uid).kind = kind
  /\ JobView(store', uid).src = src
  /\ JobView(store', uid).dst = dst
  /\ JobView(store', uid).flags = Whitelisted(flags)

\* C3: when a valid submit succeeds, a get of the returned job id right after
\* it reports status running, the submitted kind, src and dst, and the
\* submitted flags restricted to the whitelist.
C3_GetAfterSubmit ==
  [][/\ \A p \in Procs :
          (SubmitSucceeds(p) /\ pc[p] # "idle")
            => GetShows(resp'.uid, loc[p].kind, loc[p].src, loc[p].dst, loc[p].flags)
     /\ \A p \in Procs :
          (SubmitSucceeds(p) /\ pc[p] = "idle")
            => \A in \in SubmitInputs :
                 CreateJob(p, in[1], in[2])
                   => GetShows(resp'.uid, in[1].kind, in[1].src, in[1].dst,
                               in[1].flags)]_vars

\* C4: the payload of every start call in flight holds the async marker, the
\* source and the destination, and of the caller's flags exactly the
\* whitelisted ones with the caller's values: an entry of the caller's under
\* any other name is not in it.
C4_PayloadWhitelist ==
  \A p \in Procs :
    pc[p] = "submit_wait" =>
      LET pl == loc[p].payload
          fl == loc[p].flags
      IN /\ DOMAIN pl = {"_async", "srcFs", "dstFs"} \cup (DOMAIN fl \cap SpecWhitelist)
         /\ pl["_async"] = "true"
         /\ pl["srcFs"] = loc[p].src
         /\ pl["dstFs"] = loc[p].dst
         /\ \A k \in DOMAIN fl \cap SpecWhitelist : pl[k] = fl[k]
         /\ \A k \in DOMAIN fl \ SpecWhitelist :
               k \notin DOMAIN pl \/ (k \in {"_async", "srcFs", "dstFs"} /\ pl[k] # fl[k])

\* C4 witness: a start call is in flight for a request that carried a
\* whitelisted flag and an unknown one.
C4_Witness ==
  \E p \in Procs :
    /\ pc[p] = "submit_wait"
    /\ "verbose" \in DOMAIN loc[p].flags
    /\ "checksum" \in DOMAIN loc[p].payload

\* this step answers request p's stop of uid with stopped: false and the
\* message for this status
AnswersStoppedFalse(p, uid, status) ==
  /\ resp'.proc = p /\ resp'.op = "stop" /\ resp'.code = 200 /\ resp'.err = None
  /\ resp'.uid = uid /\ ~resp'.stopped
  /\ resp'.body = StopMessage(status)

\* C5: a stop of a running job on a registered node calls the gateway, and
\* when that call succeeds the job is stopped and the answer is stopped: true;
\* a stop of a job issued after a stop of it has returned stopped: true is
\* answered stopped: false.
C5_StopThenStopAgain ==
  [][\A p \in Procs :
       /\ Begins(p) =>
            \A u \in DOMAIN store :
              /\ (store[u].status = "running"
                    /\ NodeLookup(registry, store[u].node) # None /\ StopJob(p, u))
                   => pc'[p] = "stop_wait" /\ stopCalls'[u] = stopCalls[u] + 1
              /\ (u \in DOMAIN acked /\ acked[u].status = "stopped" /\ StopJob(p, u))
                   => /\ AnswersStoppedFalse(p, u, "stopped")
                      /\ NoCallNoWrite
       /\ (pc[p] = "stop_wait" /\ loc[p].uid \in DOMAIN store /\ StopJobReturn(p))
            => /\ store'[loc[p].uid].status = "stopped"
               /\ resp' = Resp(p, "stop", 200, None, loc[p].uid, TRUE)]_vars

\* C5 witness: a stop of a job has just been answered stopped: false after an
\* earlier stop of it was answered stopped: true.
C5_Witness ==
  /\ resp.op = "stop" /\ resp.code = 200 /\ ~resp.stopped
  /\ resp.uid \in DOMAIN acked /\ acked[resp.uid].status = "stopped"
  /\ stopCalls[resp.uid] = 1

\* C6: every job's status is running or stopped; a new record is running; the
\* only change of a status is running to stopped, made by the return of a stop
\* of that job whose gateway call succeeded; a stopped job stays in the table
\* and stays stopped.
C6_StatusMonotone ==
  /\ [](\A u \in DOMAIN store : store[u].status \in {"running", "stopped"})
  /\ [][/\ \A u \in DOMAIN store' \ DOMAIN store : store'[u].status = "running"
        /\ \A u \in DOMAIN store \cap DOMAIN store' :
             store'[u].status # store[u].status
               => /\ store[u].status = "running"
                  /\ store'[u].status = "stopped"
                  /\ \E p \in Procs : loc[p].uid = u /\ StopJobReturn(p)
        /\ \A u \in DOMAIN store :
             store[u].status = "stopped"
               => u \in DOMAIN store' /\ store'[u].status = "stopped"]_vars

\* C6 witness: a submit that raced one with the same key has just ended, after
\* the job under that key was stopped, and the job is still stopped.
C6_Witness ==
  /\ resp.op = "submit" /\ resp.code = 500
  /\ "k1" \in DOMAIN store /\ store["k1"].status = "stopped"

\* C7: a record persisted under an id stays in the table under that id, with
\* the same node, kind, src and dst, in every later state.
C7_IdsStable ==
  [][\A u \in DOMAIN store :
       /\ u \in DOMAIN store'
       /\ store'[u].node = store[u].node /\ store'[u].kind = store[u].kind
       /\ store'[u].src = store[u].src /\ store'[u].dst = store[u].dst]_vars

\* this step answers request p with an error, sends no gateway call, draws no
\* uuid and writes nothing
Rejected(p, code, err) ==
  /\ resp' = Resp(p, "submit", code, err, None, FALSE)
  /\ NoCallNoWrite
  /\ nextUid' = nextUid

\* C8: a submit with an unsupported kind or a missing or empty node, src or
\* dst is answered InvalidRequest, one that gets as far as the registry with a
\* node id that is not in it is answered NodeNotFound, and no rejected submit
\* sends a gateway call or writes to the jobs table.
C8_RejectBeforeCall ==
  \A p \in Procs, in \in SubmitInputs :
    /\ ~WellFormed(in[1])
         => ~ENABLED (/\ CreateJob(p, in[1], in[2])
                      /\ ~Rejected(p, 400, "InvalidRequest"))
    /\ (WellFormed(in[1]) /\ in[1].node \notin Range(registry)
          /\ ~(Truthy(in[2]) /\ in[2] \in DOMAIN store))
         => ~ENABLED (/\ CreateJob(p, in[1], in[2])
                      /\ ~Rejected(p, 404, "NodeNotFound"))
    /\ ~ENABLED (/\ CreateJob(p, in[1], in[2])
                 /\ resp'.code \in {400, 404}
                 /\ ~(NoCallNoWrite /\ nextUid' = nextUid))

\* C8 witness: a submit naming an unregistered node has just been rejected
\* while the table holds a job and another request's start call is in flight.
C8_Witness ==
  /\ resp.op = "submit" /\ resp.code = 404 /\ resp.err = "NodeNotFound"
  /\ store # <<>>
  /\ \E p \in Procs : pc[p] = "submit_wait"

\* the stats and the error lines of the stream, by their members
IsStatsEvent(e, node_id) ==
  DOMAIN e = {"t", "node", "stats"} /\ e["node"] = node_id

IsErrorEvent(e, node_id) ==
  DOMAIN e = {"t", "node", "error"} /\ e["node"] = node_id /\ e["error"] = TRUE

\* C9: a round that has ended has emitted one event per registered node, in
\* registry order, each a stats line or an error line and never both; a round
\* under way has emitted the events of the nodes polled so far; a call that
\* succeeds adds a stats line, one that fails adds an error line, and the
\* round goes on to the next node either way.
C9_OneEventPerNode ==
  /\ [](\A s \in Subs :
          /\ spc[s] = "sleeping" => Len(round[s]) = Len(registry)
          /\ spc[s] # "off" =>
               /\ Len(round[s]) + Len(iter[s]) = Len(registry)
               /\ \A i \in 1..Len(round[s]) :
                    \/ IsStatsEvent(round[s][i], registry[i])
                    \/ IsErrorEvent(round[s][i], registry[i])
               /\ \A i \in 1..Len(iter[s]) : iter[s][i] = registry[Len(round[s]) + i])
  /\ [][\A s \in Subs :
          /\ PollNodeOk(s) =>
               IsStatsEvent(round'[s][Len(round'[s])], Head(iter[s]))
          /\ PollNodeFails(s) =>
               /\ IsErrorEvent(round'[s][Len(round'[s])], Head(iter[s]))
               /\ spc'[s] = "polling"
               /\ iter'[s] = Tail(iter[s])
               /\ \A o \in Subs \ {s} : round'[o] = round[o] /\ iter'[o] = iter[o]]_vars

\* C9 witness: a round over two nodes has ended with an error line for the
\* first node followed by a stats line for the second.
C9_Witness ==
  \E s \in Subs :
    /\ spc[s] = "sleeping"
    /\ Len(round[s]) = 2
    /\ IsErrorEvent(round[s][1], "A")
    /\ IsStatsEvent(round[s][2], "B")

\* what a get's body says about the promised members
Promised(body) ==
  Promise(body.uid, body.node, body.kind, body.src, body.dst, body.rc_jobid,
          body.status)

\* C10: after a submit or a stop of a job has returned successfully, the
\* table holds the record it wrote, and every get of that id returns it (id,
\* node, kind, src, dst, remote handle, status), also after restarts.
C10_Durability ==
  /\ [](\A u \in DOMAIN acked : u \in DOMAIN store)
  /\ [][\A u \in DOMAIN acked :
          (resp'.op = "get" /\ JobStatus(u))
            => /\ resp'.code = 200
               /\ Promised(resp'.body) = acked[u]]_vars

\* C10 witness: a get has just returned a stopped job whose node is no longer
\* registered: the process was restarted after the submit and the stop.
C10_Witness ==
  /\ resp.op = "get" /\ resp.code = 200
  /\ resp.uid \in DOMAIN acked
  /\ resp.body.status = "stopped"
  /\ resp.body.node \notin Range(registry)

\* no handler is between save_job and its UPDATE: the event loop is free
LoopFree == \A r \in Procs : pc[r] # "submit_saved"

\* C11: when the gateway call of a submit fails, the submit is answered with
\* the gateway's error (502), the handler ends without sending the call again,
\* and the jobs table and every acknowledged job are as they were before.
C11_FailedStartLeavesStore ==
  \A p \in Procs :
    (pc[p] = "submit_wait" /\ LoopFree)
      => /\ ENABLED StartOperationFails(p)
         /\ ~ENABLED (/\ StartOperationFails(p)
                      /\ ~(/\ resp' = Resp(p, "submit", 502, "Gateway", None, FALSE)
                           /\ pc'[p] = "idle"
                           /\ loc'[p] = IdleLoc
                           /\ NoCallNoWrite
                           /\ acked' = acked))

\* C11 witness: a submit has just been answered 502 after its start call was
\* sent, and the table holds the one job an earlier submit created, no more.
C11_Witness ==
  /\ resp.op = "submit" /\ resp.code = 502 /\ resp.err = "Gateway"
  /\ pc[resp.proc] = "idle"
  /\ Sum(startCalls, DOMAIN startCalls) = 2
  /\ Cardinality(DOMAIN store) = 1

\* C12: when two submits with key K have both called the agent, each of them
\* ends by returning K without an error, and the jobs table then holds their
\* record under K and none under the id the record was first saved with.
C12_RaceOneRecord ==
  [][\A p \in Procs :
       (/\ pc[p] = "submit_saved" /\ resp'.proc = p
        /\ startCalls[loc[p].key] >= 2)
         => /\ resp'.code = 200 /\ resp'.uid = loc[p].key
            /\ loc[p].key \in DOMAIN store'
            /\ loc[p].uid \notin DOMAIN store']_vars

\* a stop of job u has returned stopped: true
StopSucceeded(u) == u \in DOMAIN acked /\ acked[u].status = "stopped"

\* C13: when the gateway call of a stop fails, the stop is answered with the
\* gateway's error (502) and every record is left as it was, status and
\* updated_at included: the job is still running unless another stop of it
\* has succeeded, and a stop of a running job whose earlier stop call failed
\* can send the call again.
C13_FailedStopLeavesJob ==
  \A p \in Procs :
    /\ (pc[p] = "stop_wait" /\ LoopFree)
         => /\ loc[p].uid \in DOMAIN store
            /\ ~StopSucceeded(loc[p].uid) => store[loc[p].uid].status = "running"
            /\ ENABLED StopJobFails(p)
            /\ ~ENABLED (/\ StopJobFails(p)
                         /\ ~(/\ resp' = Resp(p, "stop", 502, "Gateway", None, FALSE)
                              /\ pc'[p] = "idle"
                              /\ NoCallNoWrite
                              /\ acked' = acked))
    /\ \A u \in DOMAIN store :
         (/\ pc[p] = "idle" /\ LoopFree /\ stopCalls[u] >= 1 /\ ~StopSucceeded(u)
          /\ store[u].node \in Range(registry) /\ GatewayCalls < MaxCalls)
           => ENABLED (/\ StopJob(p, u)
                       /\ pc'[p] = "stop_wait"
                       /\ stopCalls'[u] = stopCalls[u] + 1)

\* C13 witness: a stop has just been answered 502; the one job of the table
\* is running and was last written before the clock advanced.
C13_Witness ==
  /\ resp.op = "stop" /\ resp.code = 502 /\ resp.err = "Gateway"
  /\ \E u \in DOMAIN store :
       /\ DOMAIN store = {u}
       /\ stopCalls[u] >= 1
       /\ store[u].status = "running"
       /\ store[u].updated_at < now

\* C14: a stop of a job whose status is not running is answered stopped:
\* false with the message, sends no gateway call and leaves every record as
\* it was, also when the job's node is no longer in the registry.
C14_StopNotRunningNoOp ==
  \A p \in Procs, u \in DOMAIN store :
    (store[u].status # "running" /\ pc[p] = "idle" /\ LoopFree)
      => /\ ENABLED StopJob(p, u)
         /\ ~ENABLED (/\ StopJob(p, u)
                      /\ ~(/\ AnswersStoppedFalse(p, u, store[u].status)
                           /\ pc'[p] = "idle"
                           /\ NoCallNoWrite
                           /\ acked' = acked))

\* C14 witness: a stop has just been answered stopped: false for a stopped
\* job whose node is not in the registry.
C14_Witness ==
  /\ resp.op = "stop" /\ resp.code = 200 /\ ~resp.stopped
  /\ resp.uid \in DOMAIN store
  /\ store[resp.uid].status = "stopped"
  /\ store[resp.uid].node \notin Range(registry)
  /\ resp.body = StopMessage("stopped")

\* this step answers request p's stop with this error, sends no gateway call
\* and writes nothing
StopRejected(p, code, err) ==
  /\ resp'.proc = p /\ resp'.op = "stop" /\ resp'.code = code /\ resp'.err = err
  /\ ~resp'.stopped
  /\ pc'[p] = "idle"
  /\ NoCallNoWrite
  /\ acked' = acked

\* C15: a stop of a running job whose node is not in the registry is
\* answered NodeNotFound, sends no gateway call and leaves the job running; a
\* stop of an id that has no record is answered JobNotFound and changes
\* nothing.
C15_StopUnknownNodeOrJob ==
  \A p \in Procs, u \in JobIds :
    (pc[p] = "idle" /\ LoopFree)
      => /\ (/\ u \in DOMAIN store
             /\ store[u].status = "running"
             /\ store[u].node \notin Range(registry))
              => /\ ENABLED StopJob(p, u)
                 /\ ~ENABLED (/\ StopJob(p, u)
                              /\ ~(/\ StopRejected(p, 404, "NodeNotFound")
                                   /\ store'[u].status = "running"))
         /\ u \notin DOMAIN store
              => /\ ENABLED StopJob(p, u)
                 /\ ~ENABLED (StopJob(p, u) /\ ~StopRejected(p, 404, "JobNotFound"))

\* C15 witness: a stop has just been answered NodeNotFound; the one job of the
\* table is running on a node that a restart dropped from the registry.
C15_Witness ==
  /\ resp.op = "stop" /\ resp.code = 404 /\ resp.err = "NodeNotFound"
  /\ \E u \in DOMAIN store :
       /\ DOMAIN store = {u}
       /\ store[u].status = "running"
       /\ store[u].node \notin Range(registry)
       /\ stopCalls[u] = 0

\* subscriber s is at the start of a polling round
RoundStarts(s) == spc[s] = "polling" /\ round[s] = <<>>

\* C16: a subscriber's loop ends only when that subscriber disconnects (or
\* the process is restarted); a disconnect leaves every other subscriber's
\* loop where it was; and a subscriber that stays connected ends its rounds
\* and starts new ones forever, whatever the outcome of the polls.
C16_StreamNeverEnds ==
  /\ [][\A s \in Subs :
          /\ (spc[s] # "off" /\ spc'[s] = "off")
               => (Cancel(s) \/ \E cfg \in Configs : Restart(cfg))
          /\ Cancel(s)
               => \A o \in Subs \ {s} :
                    spc'[o] = spc[o] /\ iter'[o] = iter[o] /\ round'[o] = round[o]]_vars
  /\ \A s \in Subs :
       <>[](spc[s] # "off")
         => ([]<>(spc[s] = "sleeping") /\ []<>RoundStarts(s))

\* C16 witness: one subscriber is disconnected while the other has ended a
\* round over two nodes in which every node failed.
C16_Witness ==
  \E s \in Subs, o \in Subs :
    /\ spc[s] = "off"
    /\ spc[o] = "sleeping"
    /\ Len(round[o]) = 2
    /\ \A i \in 1..2 : IsErrorEvent(round[o][i], registry[i])

\* request p is suspended at the gateway call of a submit or a stop
Waiting(p) == pc[p] \in {"submit_wait", "stop_wait"}

\* the model's bounds leave room for one more uuid and one more gateway call
Room == nextUid < MaxJobs /\ GatewayCalls < MaxCalls

\* C17: while a request is suspended at its gateway call, nothing of it is
\* in the jobs table yet if it is a submit, and for every other job a get
\* can be answered, a submit and a stop can begin, send their own call and
\* return, without the suspended request moving.
C17_DistinctJobsIndependent ==
  \A p \in Procs :
    (Waiting(p) /\ LoopFree) =>
      /\ pc[p] = "submit_wait" => loc[p].uid \notin DOMAIN store
      /\ \A u \in JobIds \ {loc[p].uid} :
           ENABLED (JobStatus(u) /\ pc' = pc /\ resp'.op = "get")
      /\ \A q \in Procs \ {p} :
           /\ pc[q] = "idle" =>
                /\ \A in \in ValidRequests \X KeyInputs :
                     (/\ Room /\ in[1].node \in Range(registry)
                      /\ ~(Truthy(in[2]) /\ in[2] \in DOMAIN store \cup {loc[p].key}))
                       => ENABLED (/\ CreateJob(q, in[1], in[2])
                                   /\ pc' = [pc EXCEPT ![q] = "submit_wait"])
                /\ \A u \in DOMAIN store \ {loc[p].uid} :
                     /\ (\/ GatewayCalls < MaxCalls \/ store[u].status # "running"
                         \/ store[u].node \notin Range(registry))
                          => ENABLED (/\ StopJob(q, u)
                                      /\ pc'[p] = pc[p] /\ loc'[p] = loc[p])
                     /\ (/\ GatewayCalls < MaxCalls /\ store[u].status = "running"
                         /\ store[u].node \in Range(registry))
                          => ENABLED (/\ StopJob(q, u)
                                      /\ pc' = [pc EXCEPT ![q] = "stop_wait"])
           /\ (pc[q] = "submit_wait" /\ KeyOf(loc[q].key) = None)
                => ENABLED (/\ StartOperationReturn(q)
                            /\ pc' = [pc EXCEPT ![q] = "idle"]
                            /\ resp'.proc = q /\ resp'.code = 200)
           /\ (pc[q] = "stop_wait" /\ loc[q].uid # loc[p].uid)
                => ENABLED (/\ StopJobReturn(q)
                            /\ pc' = [pc EXCEPT ![q] = "idle"]
                            /\ resp'.proc = q /\ resp'.stopped)

\* C17 witness: a request is suspended at the gateway stop call of one job
\* while another request's submit has just returned a different job.
C17_Witness ==
  \E p \in Procs :
    /\ pc[p] = "stop_wait"
    /\ resp.op = "submit" /\ resp.code = 200
    /\ resp.proc # p
    /\ resp.uid # loc[p].uid
    /\ resp.uid \in DOMAIN store

\* C18 (as claimed): no two stops of one job are at the gateway call at the
\* same time, no stop call is sent for a job after a stop of it was answered
\* stopped: true, and at most one stop of a job is answered stopped: true.
C18_AtMostOneStop ==
  /\ [](\A p \in Procs, q \in Procs :
          (p # q /\ pc[p] = "stop_wait" /\ pc[q] = "stop_wait")
            => loc[p].uid # loc[q].uid)
  /\ [][/\ \A u \in JobIds : stopCalls'[u] # stopCalls[u] => ~StopSucceeded(u)
        /\ \A p \in Procs :
             (pc[p] = "stop_wait" /\ resp'.proc = p /\ resp'.stopped)
               => ~StopSucceeded(loc[p].uid)]_vars

\* C18 (amended): a stop sends the stop call only for a job it reads as
\* running, so none is sent once the job is stopped; stops of one job are not
\* serialized: while one is at its gateway call and the job is still running
\* another can send the call too, and every stop whose call succeeds is
\* answered stopped: true and leaves the job stopped.
C18_StopsNotSerialized ==
  \A p \in Procs :
    /\ (pc[p] = "idle" /\ LoopFree)
         => \A u \in DOMAIN store :
              /\ store[u].status # "running"
                   => ~ENABLED (StopJob(p, u) /\ stopCalls' # stopCalls)
              /\ (/\ store[u].status = "running" /\ store[u].node \in Range(registry)
                  /\ GatewayCalls < MaxCalls)
                   => /\ ENABLED (/\ StopJob(p, u)
                                  /\ pc'[p] = "stop_wait"
                                  /\ stopCalls'[u] = stopCalls[u] + 1)
                      /\ ~ENABLED (StopJob(p, u) /\ stopCalls'[u] # stopCalls[u] + 1)
    /\ (pc[p] = "stop_wait" /\ LoopFree)
         => /\ ENABLED StopJobReturn(p)
            /\ ~ENABLED (/\ StopJobReturn(p)
                         /\ ~(/\ resp' = Resp(p, "stop", 200, None, loc[p].uid, TRUE)
                              /\ store'[loc[p].uid].status = "stopped"
                              /\ stopCalls' = stopCalls))

\* C18 witness: a stop of a job has just been answered stopped: true while
\* another stop of the same job is still at its gateway call.
C18_Witness ==
  \E p \in Procs :
    /\ pc[p] = "stop_wait"
    /\ resp.op = "stop" /\ resp.stopped
    /\ resp.proc # p
    /\ resp.uid = loc[p].uid
    /\ store[resp.uid].status = "stopped"
    /\ stopCalls[resp.uid] = 2

\* the jobs table holds a record with this remote job handle
Recorded(db, h) == \E u \in DOMAIN db : db[u].rc_jobid = h

\* C19: every handle an agent has returned to a submit is the remote job
\* handle of a record of the jobs table, and it still is when that submit
\* ends, with a job id or with an error: also for the submit that loses the
\* race on an idempotency key.
C19_NoStartedOperationLost ==
  /\ \A h \in 1..nextHandle : Recorded(store, h)
  /\ \A p \in Procs :
       pc[p] = "submit_saved"
         => /\ loc[p].rc_jobid \in 1..nextHandle
            /\ ENABLED OverwriteUid(p)
            /\ ~ENABLED (/\ OverwriteUid(p)
                         /\ ~(/\ resp'.proc = p /\ pc'[p] = "idle"
                              /\ Recorded(store', loc[p].rc_jobid)
                              /\ \A h \in 1..nextHandle : Recorded(store', h)))

\* C19 witness: the submit that lost the race on k1 has just ended with an
\* error, and the table holds the winner's record under k1 and the loser's
\* under its own id, with the two handles the agent returned.
C19_Witness ==
  /\ resp.op = "submit" /\ resp.code = 500
  /\ nextHandle = 2
  /\ "k1" \in DOMAIN store
  /\ \E u \in DOMAIN store \ {"k1"} :
       {store["k1"].rc_jobid, store[u].rc_jobid} = {1, 2}

====
